---- MODULE Spec2Model ----
(***************************************************************************)
(* Model of the resume analyzer's backend: backend/utils.py (text          *)
(* extraction, section splitting, skill extraction, experience estimate,   *)
(* scoring) and backend/openai_client.py (the suggestion call).            *)
(*                                                                         *)
(* Python str values are TLA+ strings; a character is a string of length   *)
(* one.  Three non-ASCII characters are written with ASCII stand-ins that  *)
(* no pattern of the program treats specially: "~" is the en dash U+2013,  *)
(* "^" the em dash U+2014 and "*" the bullet U+2022.                       *)
(***************************************************************************)
EXTENDS Integers, Sequences, FiniteSets, TLC

VARIABLES
    pc,          \* position of the call in progress
    module,      \* the module globals of utils.py: SKILLS_DATABASE and nlp
    clock,       \* the calendar year datetime.now().year returns
    text,        \* the resume text
    sections,    \* the section map of split_into_sections
    skills,      \* the list extract_skills returned
    years_exp,   \* the estimate of estimate_years_of_experience
    score,       \* [total, breakdown] of calculate_score
    prev,        \* the outputs of the earlier pipeline runs on this text
    pdf,         \* the PDF handed to extract_text_from_pdf
    reply,       \* the outcome of the chat completion request
    result       \* what extract_text_from_pdf / call_openai_suggestions gave

vars == <<pc, module, clock, text, sections, skills, years_exp, score, prev, pdf, reply, result>>

(***************************************************************************)
(* Characters and strings (Python str and re primitives).                  *)
(***************************************************************************)
EN_DASH == "~"
EM_DASH == "^"
BULLET == "*"

Min(S) == CHOOSE m \in S : \A n \in S : m <= n
Max(S) == CHOOSE m \in S : \A n \in S : m >= n

Ch(s, i) == IF 1 <= i /\ i <= Len(s) THEN SubSeq(s, i, i) ELSE ""

Uppers == "ABCDEFGHIJKLMNOPQRSTUVWXYZ"
Lowers == "abcdefghijklmnopqrstuvwxyz"
Digits == "0123456789"
UpperSet == {SubSeq(Uppers, i, i) : i \in 1..26}
LowerSet == {SubSeq(Lowers, i, i) : i \in 1..26}
DigitSet == {SubSeq(Digits, i, i) : i \in 1..10}

\* \s
IsSpace(c) == c \in {" ", "\t", "\n", "\r", "\f"}
\* \d
IsDigit(c) == c \in DigitSet
\* \w
IsWordCh(c) == c \in UpperSet \cup LowerSet \cup DigitSet \cup {"_"}
\* [-<en dash><em dash>]
IsDash(c) == c \in {"-", EN_DASH, EM_DASH}

LowerCh(c) ==
    IF c \in UpperSet
    THEN LET i == CHOOSE k \in 1..26 : SubSeq(Uppers, k, k) = c IN SubSeq(Lowers, i, i)
    ELSE c

\* str.lower()
RECURSIVE lower(_)
lower(s) ==
    IF Len(s) = 0 THEN ""
    ELSE IF Len(s) = 1 THEN LowerCh(s)
    ELSE LET h == Len(s) \div 2
         IN lower(SubSeq(s, 1, h)) \o lower(SubSeq(s, h + 1, Len(s)))

\* str.strip()
strip(s) ==
    LET idx == {i \in 1..Len(s) : ~IsSpace(Ch(s, i))}
    IN IF idx = {} THEN "" ELSE SubSeq(s, Min(idx), Max(idx))

\* str.split('\n')
RECURSIVE split_newline(_)
split_newline(s) ==
    LET nl == {i \in 1..Len(s) : Ch(s, i) = "\n"}
    IN IF nl = {} THEN <<s>>
       ELSE <<SubSeq(s, 1, Min(nl) - 1)>> \o split_newline(SubSeq(s, Min(nl) + 1, Len(s)))

\* needle in haystack
Contains(haystack, needle) ==
    \E i \in 1..(Len(haystack) - Len(needle) + 1) :
        SubSeq(haystack, i, i + Len(needle) - 1) = needle

\* the position after the longest run of \s (\d) starting at i
RECURSIVE SkipSpace(_, _)
SkipSpace(s, i) == IF i <= Len(s) /\ IsSpace(Ch(s, i)) THEN SkipSpace(s, i + 1) ELSE i

RECURSIVE SkipDigits(_, _)
SkipDigits(s, i) == IF i <= Len(s) /\ IsDigit(Ch(s, i)) THEN SkipDigits(s, i + 1) ELSE i

RECURSIVE SkipWord(_, _)
SkipWord(s, i) == IF i <= Len(s) /\ IsWordCh(Ch(s, i)) THEN SkipWord(s, i + 1) ELSE i

\* the literal w (lowercase) at position i of s, under re.IGNORECASE
LitAt(s, i, w) ==
    /\ i >= 1
    /\ i + Len(w) - 1 <= Len(s)
    /\ lower(SubSeq(s, i, i + Len(w) - 1)) = w

\* w1\s+w2 at position i of s, under re.IGNORECASE
TwoWordsAt(s, i, w1, w2) ==
    /\ LitAt(s, i, w1)
    /\ LET j == SkipSpace(s, i + Len(w1))
       IN j > i + Len(w1) /\ LitAt(s, j, w2)

\* int(digits)
RECURSIVE int(_)
int(d) ==
    IF Len(d) = 0 THEN 0
    ELSE 10 * int(SubSeq(d, 1, Len(d) - 1))
         + (CHOOSE k \in 0..9 : SubSeq(Digits, k + 1, k + 1) = SubSeq(d, Len(d), Len(d)))

\* '\n'.join(lines)
RECURSIVE join_newline(_)
join_newline(lines) ==
    IF Len(lines) = 0 THEN ""
    ELSE IF Len(lines) = 1 THEN lines[1]
    ELSE lines[1] \o "\n" \o join_newline(Tail(lines))

(***************************************************************************)
(* split_into_sections                                                     *)
(***************************************************************************)
SectionNames == {"contact", "summary", "experience", "education", "skills", "projects", "other"}

EmptySections == [n \in SectionNames |-> ""]

\* the keys of section_patterns, in the order the dict is iterated
PatternOrder == <<"experience", "education", "skills", "projects", "summary", "contact">>

HeaderLimit == 50

\* re.match(section_patterns[name], s)
section_patterns(name, s) ==
    CASE name = "experience" ->
            \/ TwoWordsAt(s, 1, "work", "experience")
            \/ LitAt(s, 1, "experience")
            \/ TwoWordsAt(s, 1, "employment", "history")
            \/ TwoWordsAt(s, 1, "professional", "experience")
      [] name = "education" ->
            \/ LitAt(s, 1, "education")
            \/ TwoWordsAt(s, 1, "academic", "background")
            \/ LitAt(s, 1, "qualifications")
      [] name = "skills" ->
            \/ TwoWordsAt(s, 1, "technical", "skills")
            \/ LitAt(s, 1, "skills")
            \/ LitAt(s, 1, "competencies")
            \/ LitAt(s, 1, "expertise")
      [] name = "projects" ->
            \/ LitAt(s, 1, "projects")
            \/ LitAt(s, 1, "portfolio")
      [] name = "summary" ->
            \/ LitAt(s, 1, "summary")
            \/ LitAt(s, 1, "profile")
            \/ LitAt(s, 1, "objective")
            \/ TwoWordsAt(s, 1, "about", "me")
      [] name = "contact" ->
            \/ LitAt(s, 1, "contact")
            \/ TwoWordsAt(s, 1, "personal", "information")

\* the pattern loop of one line: the names whose pattern matches a short line
HeaderHits(line_stripped) ==
    {k \in 1..Len(PatternOrder) :
        section_patterns(PatternOrder[k], line_stripped) /\ Len(line_stripped) < HeaderLimit}

is_header(line) == HeaderHits(strip(line)) # {}

\* the section the first matching pattern names
header_section(line) == PatternOrder[Min(HeaderHits(strip(line)))]

\* the body of one iteration of "for line in lines"
MissedAppend(secs, current, line) ==
    IF ~is_header(line) /\ strip(line) # "" /\ current # "other"
    THEN [secs EXCEPT ![current] = @ \o line \o "\n"]
    ELSE secs

AppendLine(secs, current, line) ==
    IF ~is_header(line) /\ strip(line) # ""
    THEN [secs EXCEPT ![current] = @ \o line \o "\n"]
    ELSE secs

RECURSIVE SplitLoop(_, _, _, _)
SplitLoop(lines, k, current, secs) ==
    IF k > Len(lines) THEN secs
    ELSE LET line == lines[k]
             cur == IF is_header(line) THEN header_section(line) ELSE current
         IN SplitLoop(lines, k + 1, cur, AppendLine(secs, cur, line))

split_into_sections(t) == SplitLoop(split_newline(t), 1, "other", EmptySections)

(***************************************************************************)
(* Inputs of the splitting specification: texts of one to MaxLines lines.  *)
(***************************************************************************)
MaxLines == 3

LongLine == "Experienced engineer who has been building data platforms"

SplitLineSet ==
    { "Experience", "  WORK \t EXPERIENCE ", "Education", "Skills: Python",
      "Acme Corp 2018-2020", "  - built things", "", "   ", LongLine,
      "Professional Summary" }

RECURSIVE SeqsUpTo(_, _)
SeqsUpTo(S, n) ==
    IF n = 0 THEN {<<>>}
    ELSE LET shorter == SeqsUpTo(S, n - 1)
         IN shorter \cup {Append(q, x) : q \in {r \in shorter : Len(r) = n - 1}, x \in S}

SplitTexts == {join_newline(q) : q \in SeqsUpTo(SplitLineSet, MaxLines) \ {<<>>}}

Idle ==
    /\ module = <<>>
    /\ clock = 0
    /\ skills = <<>>
    /\ years_exp = 0
    /\ score = <<>>
    /\ prev = <<>>
    /\ pdf = <<>>
    /\ reply = <<>>
    /\ result = <<>>

InitSplit ==
    /\ pc = "start"
    /\ text \in SplitTexts
    /\ sections = EmptySections
    /\ Idle

DoSplit ==
    /\ pc = "start"
    /\ sections' = split_into_sections(text)
    /\ pc' = "split"
    /\ UNCHANGED <<module, clock, text, skills, years_exp, score, prev, pdf, reply, result>>

NextSplit == DoSplit

SpecSplit == InitSplit /\ [][NextSplit]_vars

(***************************************************************************)
(* C1                                                                      *)
(***************************************************************************)
Count(q, x) == Cardinality({i \in DOMAIN q : q[i] = x})

\* the lines of a section body: every appended line ends with a newline
BodyLines(body) == LET parts == split_newline(body) IN SubSeq(parts, 1, Len(parts) - 1)

AllBodyLines ==
    BodyLines(sections["contact"]) \o BodyLines(sections["summary"])
        \o BodyLines(sections["experience"]) \o BodyLines(sections["education"])
        \o BodyLines(sections["skills"]) \o BodyLines(sections["projects"])
        \o BodyLines(sections["other"])

\* the lines of a text; a final newline ends the last line and starts no new one
TextLines(t) ==
    LET parts == split_newline(t)
    IN IF parts[Len(parts)] = "" THEN SubSeq(parts, 1, Len(parts) - 1) ELSE parts

\* the lines of q that are in kept, in the order of q
SelectLines(q, kept) ==
    LET F[i \in 0..Len(q)] ==
            IF i = 0 THEN <<>>
            ELSE IF q[i] \in kept THEN Append(F[i - 1], q[i]) ELSE F[i - 1]
    IN F[Len(q)]

NonHeading(q) == {q[i] : i \in {j \in DOMAIN q : ~is_header(q[j])}}
NonHeadingNonBlank(q) == {q[i] : i \in {j \in DOMAIN q : ~is_header(q[j]) /\ strip(q[j]) # ""}}

SameMultiset(a, b) ==
    \A x \in {a[i] : i \in DOMAIN a} \cup {b[i] : i \in DOMAIN b} : Count(a, x) = Count(b, x)

\* C1 as stated: the section map has exactly the seven keys, and the lines of
\* the seven bodies are, as a multiset, the non-heading lines of the text.
C1_AllNonHeadingLinesKept ==
    pc = "split" =>
        /\ DOMAIN sections = SectionNames
        /\ SameMultiset(AllBodyLines, SelectLines(TextLines(text), NonHeading(TextLines(text))))

\* C1 amended: the section map has exactly the seven keys, and the lines of the
\* seven bodies are, as a multiset, the lines of the text that are neither
\* heading lines nor blank (empty or whitespace only); blank lines are dropped.
C1_NonBlankLinesPartitioned ==
    pc = "split" =>
        /\ DOMAIN sections = SectionNames
        /\ SameMultiset(AllBodyLines, SelectLines(TextLines(text), NonHeadingNonBlank(TextLines(text))))

\* a text of an experience heading, a blank line and a body line, in any order
\* that leaves the body line in the experience section
C1_Witness ==
    /\ pc = "split"
    /\ \E l \in {TextLines(text)[i] : i \in DOMAIN TextLines(text)} : is_header(l)
    /\ \E l \in {TextLines(text)[i] : i \in DOMAIN TextLines(text)} : strip(l) = ""
    /\ sections["experience"] # ""

(***************************************************************************)
(* estimate_years_of_experience                                            *)
(*                                                                         *)
(* A match of re.findall is modelled as Python returns it: with two groups *)
(* in the pattern a pair of strings, with one group the group's string.    *)
(* NoMatch stands for "the pattern does not match at this position".       *)
(***************************************************************************)
NoMatch == [ok |-> FALSE, groups |-> "", end |-> 0]

FourDigitsAt(s, i) == i >= 1 /\ i + 3 <= Len(s) /\ \A k \in i..(i + 3) : IsDigit(Ch(s, k))

Months == {"jan", "feb", "mar", "apr", "may", "jun", "jul", "aug", "sep", "oct", "nov", "dec"}

MonthAt(s, i) == \E m \in Months : LitAt(s, i, m)

\* (\d+)\+?\s*years?\s+(?:of\s+)?(?:experience|exp) at position i
explicit_pattern(s, i) ==
    LET j == SkipDigits(s, i)
        k == IF Ch(s, j) = "+" THEN j + 1 ELSE j
        m == SkipSpace(s, k)
        n == IF lower(Ch(s, m + 4)) = "s" THEN m + 5 ELSE m + 4
        p == SkipSpace(s, n)
        o == SkipSpace(s, p + 2)
        q == IF LitAt(s, p, "of") /\ o > p + 2 /\ LitAt(s, o, "exp") THEN o ELSE p
    IN IF j > i /\ LitAt(s, m, "year") /\ p > n /\ LitAt(s, q, "exp")
       THEN [ok |-> TRUE, groups |-> SubSeq(s, i, j - 1),
             end |-> IF LitAt(s, q, "experience") THEN q + 10 ELSE q + 3]
       ELSE NoMatch

\* (\d{4})\s*[-<en><em>]\s*(\d{4}) at position i
range_years_pattern(s, i) ==
    LET j == SkipSpace(s, i + 4)
        k == SkipSpace(s, j + 1)
    IN IF FourDigitsAt(s, i) /\ IsDash(Ch(s, j)) /\ FourDigitsAt(s, k)
       THEN [ok |-> TRUE, groups |-> <<SubSeq(s, i, i + 3), SubSeq(s, k, k + 3)>>, end |-> k + 4]
       ELSE NoMatch

\* (\d{4})\s*[-<en><em>]\s*(?:present|current) at position i: one group
range_present_pattern(s, i) ==
    LET j == SkipSpace(s, i + 4)
        k == SkipSpace(s, j + 1)
    IN IF FourDigitsAt(s, i) /\ IsDash(Ch(s, j))
          /\ (LitAt(s, k, "present") \/ LitAt(s, k, "current"))
       THEN [ok |-> TRUE, groups |-> SubSeq(s, i, i + 3), end |-> k + 7]
       ELSE NoMatch

\* (?:jan|...|dec)\w*\s+(\d{4})\s*[-<en><em>]\s*(?:jan|...|dec)\w*\s+(\d{4}) at position i
range_months_pattern(s, i) ==
    LET a == SkipWord(s, i + 3)
        b == SkipSpace(s, a)
        c == SkipSpace(s, b + 4)
        d == SkipSpace(s, c + 1)
        e == SkipWord(s, d + 3)
        f == SkipSpace(s, e)
    IN IF /\ MonthAt(s, i) /\ b > a /\ FourDigitsAt(s, b)
          /\ IsDash(Ch(s, c))
          /\ MonthAt(s, d) /\ f > e /\ FourDigitsAt(s, f)
       THEN [ok |-> TRUE, groups |-> <<SubSeq(s, b, b + 3), SubSeq(s, f, f + 3)>>, end |-> f + 4]
       ELSE NoMatch

\* \b(19\d{2}|20\d{2})\b at position i
year_pattern(s, i) ==
    IF /\ FourDigitsAt(s, i)
       /\ SubSeq(s, i, i + 1) \in {"19", "20"}
       /\ ~IsWordCh(Ch(s, i - 1))
       /\ ~IsWordCh(Ch(s, i + 4))
    THEN [ok |-> TRUE, groups |-> SubSeq(s, i, i + 3), end |-> i + 4]
    ELSE NoMatch

MatchAt(pattern, s, i) ==
    CASE pattern = "explicit" -> explicit_pattern(s, i)
      [] pattern = "range_years" -> range_years_pattern(s, i)
      [] pattern = "range_present" -> range_present_pattern(s, i)
      [] pattern = "range_months" -> range_months_pattern(s, i)
      [] pattern = "year" -> year_pattern(s, i)

\* re.findall(pattern, s, re.IGNORECASE): the leftmost matches, left to right,
\* each search resuming where the last match ended
RECURSIVE findall_from(_, _, _)
findall_from(pattern, s, i) ==
    LET hits == {j \in i..Len(s) : MatchAt(pattern, s, j).ok}
    IN IF hits = {} THEN <<>>
       ELSE LET m == MatchAt(pattern, s, Min(hits))
            IN <<m.groups>> \o findall_from(pattern, s, m.end)

findall(pattern, s) == findall_from(pattern, s, 1)

\* round(n / d) of Python 3: to the nearest integer, a tie to the even one
round(n, d) ==
    LET q == n \div d
        r == n % d
    IN IF 2 * r < d THEN q
       ELSE IF 2 * r > d THEN q + 1
       ELSE IF q % 2 = 0 THEN q ELSE q + 1

experience_text(t, secs) == secs["experience"] \o " " \o t

explicit_matches(t, secs) == findall("explicit", experience_text(t, secs))

date_range_patterns == <<"range_years", "range_present", "range_months">>

FirstYear == 1980

\* str.isdigit()
isdigit(d) == Len(d) > 0 /\ \A k \in 1..Len(d) : IsDigit(Ch(d, k))

\* the body of "for match in matches": the months one match adds
match_months(match, current_year) ==
    IF Len(match) = 2
    THEN LET start_year == int(match[1])
             end_year == IF isdigit(match[2]) THEN int(match[2]) ELSE current_year
         IN IF /\ FirstYear <= start_year /\ start_year <= current_year
               /\ start_year <= end_year /\ end_year <= current_year + 1
            THEN (end_year - start_year) * 12
            ELSE 0
    ELSE 0

RECURSIVE sum_months(_, _)
sum_months(matches, current_year) ==
    IF Len(matches) = 0 THEN 0
    ELSE match_months(Head(matches), current_year) + sum_months(Tail(matches), current_year)

\* total_months after the loop over date_range_patterns
total_months(t, secs, current_year) ==
    LET s == experience_text(t, secs)
    IN sum_months(findall(date_range_patterns[1], s), current_year)
       + sum_months(findall(date_range_patterns[2], s), current_year)
       + sum_months(findall(date_range_patterns[3], s), current_year)

\* the list "years" of the fallback
years_mentioned(t, secs, current_year) ==
    LET found == findall("year", experience_text(t, secs))
    IN {y \in {int(found[i]) : i \in DOMAIN found} : FirstYear <= y /\ y <= current_year}

\* the rule of the cascade that returns
rule_used(t, secs, current_year) ==
    IF explicit_matches(t, secs) # <<>> THEN "explicit"
    ELSE IF total_months(t, secs, current_year) > 0 THEN "ranges"
    ELSE IF years_mentioned(t, secs, current_year) # {} THEN "years"
    ELSE "default"

\* the returns of lines 180-222, given explicit_matches, total_months and years
cascade(em, tm, ys, current_year) ==
    IF em # <<>> THEN Max({int(em[i]) : i \in DOMAIN em})
    ELSE IF tm > 0 THEN Max({1, round(tm, 12)})
    ELSE IF ys # {} THEN Max({1, current_year - Min(ys)})
    ELSE 0

\* the cascade with total_months kept from one call to the next
estimate_years_carried(t, secs, current_year) ==
    cascade(explicit_matches(t, secs),
            total_months(t, secs, current_year) + 12 * Len(prev),
            years_mentioned(t, secs, current_year), current_year)

estimate_years_of_experience(t, secs, current_year) ==
    cascade(explicit_matches(t, secs), total_months(t, secs, current_year),
            years_mentioned(t, secs, current_year), current_year)

(***************************************************************************)
(* Inputs of the estimate specification: a text of one to MaxEstLines      *)
(* lines, any experience body, and the year of the call.                   *)
(***************************************************************************)
MaxEstLines == 2

ClockYears == {2025, 2026}

EstLineSet ==
    { "5+ years of experience", "12 Years Exp", "0 years of experience",
      "Acme 2018-2021", "Beta 2015 ~ 2018", "Gamma 2020 - Present",
      "Jan 2019 ^ December 2020", "Graduated 2012", "built things",
      "1975-1979", "2022-2019", "Delta 2025-2027" }

EstTexts == {join_newline(q) : q \in SeqsUpTo(EstLineSet, MaxEstLines) \ {<<>>}}

EstExperienceBodies == {"", "Acme 2018-2021\n", "Gamma 2020 - Present\n", "3 years exp\n"}

InitEstimate ==
    /\ pc = "start"
    /\ text \in EstTexts
    /\ \E body \in EstExperienceBodies : sections = [EmptySections EXCEPT !["experience"] = body]
    /\ clock \in ClockYears
    /\ module = <<>>
    /\ skills = <<>>
    /\ years_exp = 0
    /\ score = <<>>
    /\ prev = <<>>
    /\ pdf = <<>>
    /\ reply = <<>>
    /\ result = <<>>

DoEstimate ==
    /\ pc = "start"
    /\ years_exp' = estimate_years_of_experience(text, sections, clock)
    /\ pc' = "estimated"
    /\ UNCHANGED <<module, clock, text, sections, skills, score, prev, pdf, reply, result>>

NextEstimate == DoEstimate

SpecEstimate == InitEstimate /\ [][NextEstimate]_vars

(***************************************************************************)
(* C2, C3: the date ranges and the cascade as the specification states     *)
(* them, next to what estimate_years_of_experience returns.                *)
(***************************************************************************)
ValidRangeMonths(start_year, end_year, current_year) ==
    IF /\ FirstYear <= start_year /\ start_year <= current_year
       /\ start_year <= end_year /\ end_year <= current_year + 1
    THEN (end_year - start_year) * 12
    ELSE 0

RECURSIVE SumPairs(_, _)
SumPairs(pairs, current_year) ==
    IF Len(pairs) = 0 THEN 0
    ELSE ValidRangeMonths(int(Head(pairs)[1]), int(Head(pairs)[2]), current_year)
         + SumPairs(Tail(pairs), current_year)

RECURSIVE SumOpenEnded(_, _)
SumOpenEnded(starts, current_year) ==
    IF Len(starts) = 0 THEN 0
    ELSE ValidRangeMonths(int(Head(starts)), current_year, current_year)
         + SumOpenEnded(Tail(starts), current_year)

\* the months of every date range of the three forms in s
StatedRangeMonths(s, current_year) ==
    SumPairs(findall("range_years", s), current_year)
    + SumOpenEnded(findall("range_present", s), current_year)
    + SumPairs(findall("range_months", s), current_year)

\* C2: with no explicit statement in the input, every valid range of the three
\* forms YYYY-YYYY, YYYY-present/current and Month YYYY - Month YYYY adds
\* (end - start) * 12 months, and a sum above 0 gives max(1, round(sum / 12)).
C2_EveryRangeFormCounted ==
    (pc = "estimated" /\ explicit_matches(text, sections) = <<>>) =>
        LET sum == StatedRangeMonths(experience_text(text, sections), clock)
        IN sum > 0 => years_exp = Max({1, round(sum, 12)})

\* C3: a strict cascade.  Explicit statements give the maximum N; the
\* distinct-years rule is used only when the date-range total is 0; the result
\* is 0 exactly when no rule yields a result; the result is a natural number.
C3_StrictCascade ==
    pc = "estimated" =>
        LET em == explicit_matches(text, sections)
            sum == StatedRangeMonths(experience_text(text, sections), clock)
            ys == years_mentioned(text, sections, clock)
        IN /\ em # <<>> => years_exp = Max({int(em[i]) : i \in DOMAIN em})
           /\ rule_used(text, sections, clock) = "years" =>
                  /\ sum = 0
                  /\ years_exp = Max({1, clock - Min(ys)})
           /\ years_exp = 0 <=> (em = <<>> /\ sum = 0 /\ ys = {})
           /\ years_exp \in Nat

(***************************************************************************)
(* calculate_score.  Points are counted in thousandths (7.5 is 7500), so   *)
(* that the arithmetic of the rubric is exact.                             *)
(***************************************************************************)
Categories == {"experience", "skills", "education", "format", "keywords"}

\* min(a, b)
min(a, b) == IF a <= b THEN a ELSE b

\* round(v, 2) of a value in thousandths: to the nearest hundredth, a tie to even
round2(v) == round(v, 10) * 10

\* lines 260-267
experience_score_flat(years) ==
    min(30000,
        IF years >= 6 THEN 30000
        ELSE IF years >= 3 THEN 12000 + (years - 3) * 3300
        ELSE years * 7500)

experience_score(years) ==
    min(30000,
        IF years >= 6 THEN 30000
        ELSE IF years >= 3 THEN 15000 + (years - 3) * 3300
        ELSE years * 7500)

\* lines 271-279
skills_score(sk) ==
    LET skill_count == Len(sk)
    IN min(35000,
           IF skill_count >= 11 THEN 35000
           ELSE IF skill_count >= 6 THEN 15000 + (skill_count - 6) * 2000
           ELSE skill_count * 3000)

\* any(word in education_text for word in words)
any_in(words, s) == \E w \in words : Contains(s, w)

\* lines 282-296
education_score_swapped(secs) ==
    LET education_text == lower(secs["education"])
    IN IF any_in({"master", "msc", "mba", "m.s", "m.a"}, education_text) THEN 12000
       ELSE IF any_in({"phd", "ph.d", "doctorate"}, education_text) THEN 15000
       ELSE IF any_in({"bachelor", "bsc", "ba", "b.s", "b.a", "undergraduate"}, education_text)
            THEN 10000
       ELSE IF any_in({"associate", "diploma", "certification"}, education_text) THEN 7000
       ELSE IF strip(education_text) # "" THEN 5000
       ELSE 0

education_score(secs) ==
    LET education_text == lower(secs["education"])
    IN IF any_in({"phd", "ph.d", "doctorate"}, education_text) THEN 15000
       ELSE IF any_in({"master", "msc", "mba", "m.s", "m.a"}, education_text) THEN 12000
       ELSE IF any_in({"bachelor", "bsc", "ba", "b.s", "b.a", "undergraduate"}, education_text)
            THEN 10000
       ELSE IF any_in({"associate", "diploma", "certification"}, education_text) THEN 7000
       ELSE IF strip(education_text) # "" THEN 5000
       ELSE 0

\* str.count(c) for a character c
count(s, c) == Cardinality({i \in 1..Len(s) : Ch(s, i) = c})

\* len(s.split())
word_count(s) ==
    Cardinality({i \in 1..Len(s) : ~IsSpace(Ch(s, i)) /\ (i = 1 \/ IsSpace(Ch(s, i - 1)))})

\* \b at the gap before position i
WordBoundary(s, i) == IsWordCh(Ch(s, i - 1)) # IsWordCh(Ch(s, i))

\* [\w\.-]
IsEmailCh(c) == IsWordCh(c) \/ c \in {".", "-"}

\* re.search(r'\b[\w\.-]+@[\w\.-]+\.\w+\b', s)
email_search(s) ==
    \E p \in {i \in 1..Len(s) : Ch(s, i) = "@"} :
        /\ \E i \in 1..(p - 1) :
              /\ WordBoundary(s, i)
              /\ \A k \in i..(p - 1) : IsEmailCh(Ch(s, k))
        /\ \E q \in (p + 2)..Len(s) :
              /\ Ch(s, q) = "."
              /\ \A k \in (p + 1)..(q - 1) : IsEmailCh(Ch(s, k))
              /\ IsWordCh(Ch(s, q + 1))

\* lines 299-323
format_score(t, secs) ==
    LET contact == IF secs["contact"] # "" \/ email_search(t) THEN 2000 ELSE 0
        bullets == IF count(t, BULLET) > 3 \/ count(t, "-") > 5 THEN 2000 ELSE 0
        non_empty_sections == Cardinality({n \in DOMAIN secs : strip(secs[n]) # ""})
        structure == IF non_empty_sections >= 4 THEN 3000
                     ELSE IF non_empty_sections >= 2 THEN 1500 ELSE 0
        wc == word_count(t)
        length == IF 300 <= wc /\ wc <= 1500 THEN 3000
                  ELSE IF 150 <= wc /\ wc <= 2000 THEN 1500 ELSE 0
    IN min(10000, contact + bullets + structure + length)

ats_keywords ==
    { "achieved", "improved", "increased", "reduced", "managed", "led",
      "developed", "implemented", "designed", "analyzed", "created",
      "results", "metrics", "team", "project", "delivered" }

\* lines 327-340
keyword_score_unclamped(t) ==
    LET text_lower == lower(t)
        keyword_matches == Cardinality({kw \in ats_keywords : Contains(text_lower, kw)})
    IN keyword_matches * 700

keyword_score(t) ==
    LET text_lower == lower(t)
        keyword_matches == Cardinality({kw \in ats_keywords : Contains(text_lower, kw)})
    IN min(10000, keyword_matches * 700)

\* job_title is a parameter the function never reads
calculate_score(t, secs, sk, years) ==
    LET breakdown == [c \in Categories |->
            CASE c = "experience" -> experience_score(years)
              [] c = "skills" -> skills_score(sk)
              [] c = "education" -> education_score(secs)
              [] c = "format" -> format_score(t, secs)
              [] c = "keywords" -> keyword_score(t)]
        total == breakdown["experience"] + breakdown["skills"] + breakdown["education"]
                 + breakdown["format"] + breakdown["keywords"]
    IN [total |-> round2(total), breakdown |-> [c \in Categories |-> round2(breakdown[c])]]

(***************************************************************************)
(* Inputs of the scoring specification.  calculate_score is called with    *)
(* any text, section map, skill list and year count: either a text that    *)
(* crosses the thresholds of the format and keyword rules, with a few      *)
(* section maps, or a short text with every education body, skill count    *)
(* and year count.                                                         *)
(***************************************************************************)
MaxSkills == 12
MaxYears == 8

RECURSIVE Repeat(_, _)
Repeat(w, n) ==
    IF n = 0 THEN ""
    ELSE LET h == Repeat(w, n \div 2)
         IN IF n % 2 = 0 THEN h \o h ELSE h \o h \o w

ContactLines == "jane@mail.example.com\n- a\n- b\n- c\n- d\n- e\n- f\nLed team\n"

KeywordLines ==
    "* Achieved * improved * increased * reduced * managed led developed implemented "
        \o "designed analyzed created results metrics team project delivered\n"

ScoreBases == {"", ContactLines, KeywordLines, ContactLines \o KeywordLines}

\* numbers of filler words around the word-count thresholds 150, 300, 1500, 2000
FillerWords == {0, 150, 300, 1501, 2001}

LongTexts == {base \o Repeat("a ", n) : base \in ScoreBases, n \in FillerWords}

ShortTexts == {"", ContactLines}

Filled(names, education) ==
    [n \in SectionNames |->
        IF n = "education" THEN education ELSE IF n \in names THEN "x\n" ELSE ""]

FewSections ==
    { Filled({}, ""), Filled({"contact"}, ""), Filled({"contact", "summary"}, ""),
      Filled({"summary", "skills", "other"}, "PhD in CS\n"),
      Filled({"contact", "experience", "skills"}, "PhD in CS\n") }

EducationBodies ==
    { "", " \n", "PhD in CS\n", "Ph.D. Physics\n", "Doctorate\n", "MSc Data Science\n",
      "Master of Arts\n", "MBA\n", "M.S. EE\n", "M.A. History\n", "Bachelor of Science\n",
      "BSc Physics\n", "B.S. Chemistry\n", "Alabama State\n", "Undergraduate studies\n",
      "Associate degree\n", "Diploma\n", "AWS Certification\n", "High School\n",
      "PhD after a Master and a Bachelor\n" }

\* a sample of skills_db.json, lowercased as the module does on import
SKILLS_DATABASE ==
    << "agile", "aws", "c++", "docker", "excel", "git", "java", "linux",
       "machine learning", "python", "react", "sql", "tableau", "typescript" >>

SkillLists == {SubSeq(SKILLS_DATABASE, 1, n) : n \in 0..MaxSkills}

InitScore ==
    /\ pc = "start"
    /\ \/ /\ text \in LongTexts
          /\ sections \in FewSections
          /\ skills \in {<<>>, SubSeq(SKILLS_DATABASE, 1, MaxSkills)}
          /\ years_exp \in {0, MaxYears}
       \/ /\ text \in ShortTexts
          /\ \E body \in EducationBodies : sections = Filled({}, body)
          /\ skills \in SkillLists
          /\ years_exp \in 0..MaxYears
    /\ score = <<>>
    /\ module = <<>>
    /\ clock = 0
    /\ prev = <<>>
    /\ pdf = <<>>
    /\ reply = <<>>
    /\ result = <<>>

DoScore ==
    /\ pc = "start"
    /\ score' = calculate_score(text, sections, skills, years_exp)
    /\ pc' = "scored"
    /\ UNCHANGED <<module, clock, text, sections, skills, years_exp, prev, pdf, reply, result>>

NextScore == DoScore

GridTexts == {"", "Led a team of 5\n"}

GridSections == {Filled({}, ""), Filled({"contact", "experience", "skills"}, "PhD in CS\n")}

\* every skill count and every year count, with two texts and two section maps
InitScoreGrid ==
    /\ pc = "start"
    /\ text \in GridTexts
    /\ sections \in GridSections
    /\ skills \in SkillLists
    /\ years_exp \in 0..MaxYears
    /\ score = <<>>
    /\ module = <<>>
    /\ clock = 0
    /\ prev = <<>>
    /\ pdf = <<>>
    /\ reply = <<>>
    /\ result = <<>>

SpecScoreGrid == InitScoreGrid /\ [][NextScore]_vars

SpecScore == InitScore /\ [][NextScore]_vars

(***************************************************************************)
(* C4, C7, C9                                                              *)
(***************************************************************************)
CategoryMax ==
    [c \in Categories |->
        CASE c = "experience" -> 30000
          [] c = "skills" -> 35000
          [] c = "education" -> 15000
          [] c = "format" -> 10000
          [] c = "keywords" -> 10000]

\* C4: every value of the breakdown lies between 0 and the maximum of its
\* category, and the total is the sum of the five values and lies in [0, 100].
C4_ScoreWithinRubric ==
    pc = "scored" =>
        /\ DOMAIN score.breakdown = Categories
        /\ \A c \in Categories :
              0 <= score.breakdown[c] /\ score.breakdown[c] <= CategoryMax[c]
        /\ score.total = score.breakdown["experience"] + score.breakdown["skills"]
                         + score.breakdown["education"] + score.breakdown["format"]
                         + score.breakdown["keywords"]
        /\ 0 <= score.total /\ score.total <= 100000

\* every category at its maximum
C4_Witness ==
    /\ pc = "scored"
    /\ score.total = 100000
    /\ \A c \in Categories : score.breakdown[c] = CategoryMax[c]

\* C7: with the other inputs of the call held fixed, the experience sub-score
\* never drops as the years grow from 2 to 7, and the skills sub-score never
\* drops as the skill count grows.
C7_SubScoresMonotonic ==
    pc = "scored" =>
        LET exp == [y \in 2..7 |->
                       calculate_score(text, sections, skills, y).breakdown["experience"]]
            skl == [n \in 0..MaxSkills |->
                       calculate_score(text, sections, SubSeq(SKILLS_DATABASE, 1, n),
                                       years_exp).breakdown["skills"]]
        IN /\ \A a \in 2..7 : \A b \in a..7 : exp[a] <= exp[b]
           /\ \A m \in 0..MaxSkills : \A n \in m..MaxSkills : skl[m] <= skl[n]

\* a call past both tier boundaries, with a score that grew on the way
C7_Witness ==
    /\ pc = "scored"
    /\ years_exp = 7
    /\ Len(skills) = MaxSkills
    /\ score.breakdown["experience"]
           > calculate_score(text, sections, skills, 2).breakdown["experience"]
    /\ score.breakdown["skills"]
           > calculate_score(text, sections, SubSeq(SKILLS_DATABASE, 1, 5), years_exp).breakdown["skills"]

EducationTier(education_text, doctor, master, bachelor, associate, has_text) ==
    IF any_in(doctor, education_text) THEN 15000
    ELSE IF any_in(master, education_text) THEN 12000
    ELSE IF any_in(bachelor, education_text) THEN 10000
    ELSE IF any_in(associate, education_text) THEN 7000
    ELSE IF has_text THEN 5000
    ELSE 0

\* C9 as stated: the first tier the lowercased education text matches decides:
\* 15 for PhD or doctorate; 12 for master, MBA, M.S or M.A; 10 for bachelor, BSc,
\* BA, B.S, B.A or undergraduate; 7 for associate, diploma or certification;
\* 5 for any other non-empty text; 0 for the empty text.
C9_EducationTiersAsStated ==
    pc = "scored" =>
        score.breakdown["education"] =
            EducationTier(lower(sections["education"]),
                          {"phd", "doctorate"},
                          {"master", "mba", "m.s", "m.a"},
                          {"bachelor", "bsc", "ba", "b.s", "b.a", "undergraduate"},
                          {"associate", "diploma", "certification"},
                          sections["education"] # "")

\* C9 amended: the doctoral tier also holds "ph.d", the master tier also holds
\* "msc", and the 5 points need a text that is non-empty after stripping.
C9_EducationTiers ==
    pc = "scored" =>
        score.breakdown["education"] =
            EducationTier(lower(sections["education"]),
                          {"phd", "ph.d", "doctorate"},
                          {"master", "msc", "mba", "m.s", "m.a"},
                          {"bachelor", "bsc", "ba", "b.s", "b.a", "undergraduate"},
                          {"associate", "diploma", "certification"},
                          strip(sections["education"]) # "")

\* an education text of several tiers, decided by the first
C9_Witness ==
    /\ pc = "scored"
    /\ Contains(lower(sections["education"]), "phd")
    /\ Contains(lower(sections["education"]), "master")
    /\ Contains(lower(sections["education"]), "bachelor")
    /\ score.breakdown["education"] = 15000

(***************************************************************************)
(* extract_skills                                                          *)
(***************************************************************************)
\* the characters of the skills vocabulary, in the order of their code points
Ordered == " #+-.0123456789abcdefghijklmnopqrstuvwxyz"

\* the rank of ord(c) among them
ord(c) == CHOOSE i \in 1..Len(Ordered) : SubSeq(Ordered, i, i) = c

\* a < b for two strings
RECURSIVE str_less(_, _)
str_less(a, b) ==
    IF Len(b) = 0 THEN FALSE
    ELSE IF Len(a) = 0 THEN TRUE
    ELSE IF Head(a) = Head(b) THEN str_less(Tail(a), Tail(b))
    ELSE ord(Head(a)) < ord(Head(b))

\* sorted(list(found_skills))
RECURSIVE sorted(_)
sorted(S) ==
    IF S = {} THEN <<>>
    ELSE LET first == CHOOSE x \in S : \A y \in S : x = y \/ str_less(x, y)
         IN <<first>> \o sorted(S \ {first})

\* re.search(r'\b' + re.escape(skill) + r'\b', s)
word_search(skill, s) ==
    \E i \in 1..(Len(s) - Len(skill) + 1) :
        /\ SubSeq(s, i, i + Len(skill) - 1) = skill
        /\ WordBoundary(s, i)
        /\ WordBoundary(s, i + Len(skill))

\* s.split(): the runs of characters that are not whitespace
split_words(s) ==
    LET starts == {i \in 1..Len(s) : ~IsSpace(Ch(s, i)) /\ (i = 1 \/ IsSpace(Ch(s, i - 1)))}
        stop(i) == Min({j \in i..Len(s) : j = Len(s) \/ IsSpace(Ch(s, j + 1))})
        nth(k) == CHOOSE i \in starts : Cardinality({j \in starts : j <= i}) = k
    IN [k \in 1..Cardinality(starts) |-> SubSeq(s, nth(k), stop(nth(k)))]

IsPunct(c) == c \in {",", ";", ":", ".", "(", ")", "!", "?"}

strip_punct(w) ==
    LET idx == {i \in 1..Len(w) : ~IsPunct(Ch(w, i))}
    IN IF idx = {} THEN "" ELSE SubSeq(w, Min(idx), Max(idx))

\* the token texts of nlp(s): the tokenizer of the spaCy library, taken to cut
\* at whitespace and to split punctuation off the ends of a word
doc_tokens(s) ==
    LET w == split_words(s) IN {strip_punct(w[i]) : i \in DOMAIN w}

\* the noun chunk texts of nlp(s), taken to be spans of one or two tokens
doc_noun_chunks(s) ==
    LET w == split_words(s)
    IN {strip_punct(w[i]) : i \in DOMAIN w}
           \cup {strip_punct(w[i] \o " " \o w[i + 1]) : i \in 1..(Len(w) - 1)}

NlpLimit == 10000

extract_skills(t, secs, mod) ==
    LET database == {mod.SKILLS_DATABASE[i] : i \in DOMAIN mod.SKILLS_DATABASE}
        search_text == lower(secs["skills"] \o " " \o secs["experience"] \o " " \o secs["projects"])
        full_text_lower == lower(t)
        direct == {skill \in database :
                      word_search(skill, search_text) \/ word_search(skill, full_text_lower)}
        doc == SubSeq(search_text, 1, min(Len(search_text), NlpLimit))
        chunks == IF mod.nlp
                  THEN {strip(lower(c)) : c \in doc_noun_chunks(doc)} \cap database
                  ELSE {}
        tokens == IF mod.nlp
                  THEN {lower(k) : k \in doc_tokens(doc)} \cap database
                  ELSE {}
    IN sorted(direct \cup chunks \cup tokens)

(***************************************************************************)
(* The analysis pipeline: split_into_sections, extract_skills,             *)
(* estimate_years_of_experience and calculate_score on one text, in the    *)
(* order of the data flow, run MaxRuns times; the calendar year may change *)
(* at any moment.                                                          *)
(***************************************************************************)
MaxRuns == 2
PipeTexts ==
    { "Jane Doe\njane@mail.example.com\nExperience\nAcme 2018-2021\nSkills\nPython, SQL and C++ (Docker).",
      "Experience\nAcme 2018-2021",
      "Acme 2018-2021\nExperience\nbuilt things with Python",
      "Work Experience\nGamma 2020 - Present\nLed a team using AWS",
      "Gamma 2020 - Present",
      "Summary\n5 years of experience in Java\nExperience\nBeta 2019-2021",
      "Education\nBSc Physics 2012\nProjects\nmachine learning demo",
      "Graduated 2012, then git and linux",
      "Experience\nJan 2019 - Dec 2020 Acme\n2021-2023 Beta",
      "Technical Skills\nExcel; React.\n\nExperience\n2015 ~ 2018 Delta",
      "hello",
      "" }

InitPipeline ==
    /\ pc = "start"
    /\ text \in PipeTexts
    /\ \E available \in BOOLEAN :
          module = [SKILLS_DATABASE |-> SKILLS_DATABASE, nlp |-> available]
    /\ clock \in ClockYears
    /\ sections = EmptySections
    /\ skills = <<>>
    /\ years_exp = 0
    /\ score = <<>>
    /\ prev = <<>>
    /\ pdf = <<>>
    /\ reply = <<>>
    /\ result = <<>>

PipeSplit ==
    /\ pc = "start"
    /\ Len(prev) < MaxRuns
    /\ sections' = split_into_sections(text)
    /\ pc' = "split"
    /\ UNCHANGED <<module, clock, text, skills, years_exp, score, prev, pdf, reply, result>>

PipeSkills ==
    /\ pc = "split"
    /\ skills' = extract_skills(text, sections, module)
    /\ pc' = "skills"
    /\ UNCHANGED <<module, clock, text, sections, years_exp, score, prev, pdf, reply, result>>

\* result keeps the year that datetime.now() gave this run
PipeEstimate ==
    /\ pc = "skills"
    /\ years_exp' = estimate_years_of_experience(text, sections, clock)
    /\ result' = [year |-> clock]
    /\ pc' = "estimated"
    /\ UNCHANGED <<module, clock, text, sections, skills, score, prev, pdf, reply>>

PipeScore ==
    /\ pc = "estimated"
    /\ score' = calculate_score(text, sections, skills, years_exp)
    /\ pc' = "scored"
    /\ UNCHANGED <<module, clock, text, sections, skills, years_exp, prev, pdf, reply, result>>

\* the run returns its output; the next run starts from the same text
PipeReturn ==
    /\ pc = "scored"
    /\ prev' = Append(prev, [output |-> [sections |-> sections, skills |-> skills,
                                         years |-> years_exp, score |-> score],
                             year |-> result.year,
                             module |-> module])
    /\ sections' = EmptySections
    /\ skills' = <<>>
    /\ years_exp' = 0
    /\ score' = <<>>
    /\ result' = <<>>
    /\ pc' = "start"
    /\ UNCHANGED <<module, clock, text, pdf, reply>>

Tick ==
    /\ clock + 1 \in ClockYears
    /\ clock' = clock + 1
    /\ UNCHANGED <<pc, module, text, sections, skills, years_exp, score, prev, pdf, reply, result>>

NextPipeline == PipeSplit \/ PipeSkills \/ PipeEstimate \/ PipeScore \/ PipeReturn \/ Tick

SpecPipeline == InitPipeline /\ [][NextPipeline]_vars

C10_RangeWrittenOnceCountedOnce ==
    LET ranges == findall("range_years", text)
    IN (/\ pc = "estimated"
        /\ findall("explicit", text) = <<>>
        /\ findall("range_present", text) = <<>>
        /\ findall("range_months", text) = <<>>
        /\ Len(ranges) = 1
        /\ int(ranges[1][2]) > int(ranges[1][1])
        /\ ValidRangeMonths(int(ranges[1][1]), int(ranges[1][2]), result.year) > 0)
       => years_exp = int(ranges[1][2]) - int(ranges[1][1])

(***************************************************************************)
(* extract_text_from_pdf.  A PDF is what pdfplumber makes of it: whether   *)
(* open() raises, and for every page whether extract_text() raises, gives  *)
(* None or gives a string.                                                 *)
(***************************************************************************)
MaxPages == 3

NoTextMessage ==
    "No text could be extracted from the PDF. This PDF may be:\n"
        \o "1. A scanned image (not searchable text)\n"
        \o "2. Password protected\n"
        \o "3. Corrupted or empty\n"
        \o "Please try:\n"
        \o "- Exporting your resume as PDF from Word/Google Docs\n"
        \o "- Using a PDF with selectable text\n"
        \o "- Converting scanned PDFs using OCR software"

LibraryMessage == "No /Root object! - Is this really a PDF?"

Raised(message) == [kind |-> "ValueError", message |-> message]
Returned(value) == [kind |-> "return", value |-> value]

\* the loop over pdf.pages: the text gathered, unless a page raises
RECURSIVE PageLoop(_, _, _)
PageLoop(pages, k, gathered) ==
    IF k > Len(pages) THEN [raised |-> FALSE, text |-> gathered]
    ELSE IF pages[k].kind = "raises" THEN [raised |-> TRUE, text |-> gathered]
    ELSE IF pages[k].kind = "text" /\ pages[k].text # ""
         THEN PageLoop(pages, k + 1, gathered \o pages[k].text \o "\n")
    ELSE PageLoop(pages, k + 1, gathered)

\* lines 45-57 with "if not text" in place of "if not text.strip()"
extract_text_unstripped(file) ==
    LET loop == PageLoop(file.pages, 1, "")
    IN IF ~file.opens \/ loop.raised
       THEN Raised("Failed to extract text from PDF: " \o LibraryMessage)
       ELSE IF loop.text = ""
       THEN Raised("Failed to extract text from PDF: " \o NoTextMessage)
       ELSE Returned(loop.text)

extract_text_from_pdf(file) ==
    LET loop == PageLoop(file.pages, 1, "")
    IN IF ~file.opens \/ loop.raised
       THEN Raised("Failed to extract text from PDF: " \o LibraryMessage)
       ELSE IF strip(loop.text) = ""
       THEN Raised("Failed to extract text from PDF: " \o NoTextMessage)
       ELSE Returned(loop.text)

PageOutcomes ==
    { [kind |-> "raises"], [kind |-> "none"],
      [kind |-> "text", text |-> ""], [kind |-> "text", text |-> "  "],
      [kind |-> "text", text |-> "Jane Doe"], [kind |-> "text", text |-> "Experience\nAcme"] }

InitPdf ==
    /\ pc = "start"
    /\ \E opens \in BOOLEAN : \E pages \in SeqsUpTo(PageOutcomes, MaxPages) :
          pdf = [opens |-> opens, pages |-> pages]
    /\ result = <<>>
    /\ module = <<>>
    /\ clock = 0
    /\ text = ""
    /\ sections = EmptySections
    /\ skills = <<>>
    /\ years_exp = 0
    /\ score = <<>>
    /\ prev = <<>>
    /\ reply = <<>>

DoExtract ==
    /\ pc = "start"
    /\ result' = extract_text_from_pdf(pdf)
    /\ pc' = "extracted"
    /\ UNCHANGED <<module, clock, text, sections, skills, years_exp, score, prev, pdf, reply>>

NextPdf == DoExtract

SpecPdf == InitPdf /\ [][NextPdf]_vars

(***************************************************************************)
(* C8                                                                      *)
(***************************************************************************)
LibraryRaises(file) == ~file.opens \/ \E k \in DOMAIN file.pages : file.pages[k].kind = "raises"

\* the texts of the pages that yield text, in page order, a newline after each
RECURSIVE PageTexts(_)
PageTexts(pages) ==
    IF Len(pages) = 0 THEN ""
    ELSE IF Head(pages).kind = "text" /\ Head(pages).text # ""
         THEN Head(pages).text \o "\n" \o PageTexts(Tail(pages))
    ELSE PageTexts(Tail(pages))

\* C8: the call fails exactly when the library raises or the gathered text is
\* blank; the failure for a PDF without text carries the remediation message;
\* a returned text is not blank and is the page texts in page order.
C8_ExtractionFailsExactlyOnNoText ==
    pc = "extracted" =>
        /\ result.kind = "ValueError"
              <=> (LibraryRaises(pdf) \/ strip(PageTexts(pdf.pages)) = "")
        /\ (~LibraryRaises(pdf) /\ strip(PageTexts(pdf.pages)) = "") =>
              /\ Contains(result.message, NoTextMessage)
              /\ Contains(result.message, "scanned image")
              /\ Contains(result.message, "Password protected")
              /\ Contains(result.message, "Corrupted")
        /\ result.kind = "return" =>
              /\ strip(result.value) # ""
              /\ result.value = PageTexts(pdf.pages)

\* a PDF of a page with text between a page without text and a blank page
C8_Witness ==
    /\ pc = "extracted"
    /\ result.kind = "return"
    /\ Len(pdf.pages) = 3
    /\ pdf.pages[1].kind = "none"
    /\ pdf.pages[3] = [kind |-> "text", text |-> "  "]

(***************************************************************************)
(* call_openai_suggestions.  A JSON value is a record with its type; the   *)
(* reply is what the chat completion request gives: an exception, a        *)
(* response without choices, a message without content, or a content.      *)
(***************************************************************************)
MaxItems == 4

Str(v) == [type |-> "str", value |-> v]
List(items) == [type |-> "list", items |-> items]

Raise(exception) == [kind |-> "raise", exception |-> exception]

\* (suggestions_data.get(key, []) + ["", "", ""])[:3]
pad_unsliced(items) == items \o <<Str(""), Str(""), Str("")>>

pad_or_trim(items) == SubSeq(items \o <<Str(""), Str(""), Str("")>>, 1, 3)

has(data, key) == key \in DOMAIN data

is_list(data, key) == has(data, key) /\ data[key].type = "list"

\* d with d[key] = value
put(data, key, value) ==
    [k \in DOMAIN data \cup {key} |-> IF k = key THEN value ELSE data[k]]

\* lines 106-123: the validation of a parsed object
validate(data) ==
    IF ~is_list(data, "suggestions") THEN Raise("ValueError")
    ELSE LET d1 == IF Len(data["suggestions"].items) # 3
                   THEN put(data, "suggestions", List(pad_or_trim(data["suggestions"].items)))
                   ELSE data
             d2 == IF ~is_list(d1, "ats_keywords") THEN put(d1, "ats_keywords", List(<<>>)) ELSE d1
             d3 == IF Len(d2["ats_keywords"].items) # 3
                   THEN put(d2, "ats_keywords", List(pad_or_trim(d2["ats_keywords"].items)))
                   ELSE d2
             d4 == IF ~has(d3, "rewritten_bullet")
                   THEN put(d3, "rewritten_bullet", Str("No bullet point could be generated."))
                   ELSE d3
             d5 == IF ~has(d4, "title") THEN put(d4, "title", Str("Professional")) ELSE d4
         IN Returned(d5)

\* lines 127-137
parse_fallback(content) ==
    [ suggestions |-> List(<< Str("Unable to parse specific suggestions from AI"),
                              Str("Please review the raw response below"),
                              Str("Consider manual resume review") >>),
      rewritten_bullet |-> Str(IF content # "" THEN SubSeq(content, 1, min(Len(content), 200))
                               ELSE "No response generated"),
      title |-> Str("Professional"),
      ats_keywords |-> List(<<Str("improvement"), Str("needed"), Str("review")>>),
      raw |-> Str(content) ]

\* lines 143-153
api_fallback(exception, job_title, years) ==
    [ suggestions |-> List(<< Str("Add more quantifiable achievements with specific metrics"),
                              Str("Use strong action verbs to begin each bullet point"),
                              Str("Highlight relevant skills"
                                  \o (IF job_title # "" THEN " for " \o job_title ELSE "")) >>),
      rewritten_bullet |-> Str("Led cross-functional team of 5 to deliver project 2 weeks "
                               \o "ahead of schedule, resulting in 15% cost savings"),
      title |-> Str((IF job_title # "" THEN job_title ELSE "Professional")
                    \o " with " \o ToString(years) \o "+ years of experience"),
      ats_keywords |-> List(<<Str("achievement"), Str("leadership"), Str("results")>>),
      error |-> Str("OpenAI API error: " \o exception) ]

\* lines 82-137: the body of the outer try
try_body(r) ==
    IF r.kind = "exception" THEN Raise("APIConnectionError")
    ELSE IF r.kind = "no_choices" THEN Raise("IndexError")
    ELSE IF r.kind = "no_content" THEN Raise("AttributeError")
    ELSE IF r.json.type = "invalid" THEN Returned(parse_fallback(strip(r.content)))
    ELSE IF r.json.type # "object" THEN Raise("AttributeError")
    ELSE validate(r.json.fields)

\* the exceptions "except Exception" catches: every one the body can raise
Exceptions == {"APIConnectionError", "IndexError", "AttributeError", "ValueError"}

call_openai_suggestions(r, job_title, years) ==
    LET outcome == try_body(r)
    IN IF outcome.kind = "raise" /\ outcome.exception \in Exceptions
       THEN Returned(api_fallback(outcome.exception, job_title, years))
       ELSE outcome

\* the values a reply may hold under the key of a list
Items(n) == [i \in 1..n |-> Str("entry")]

ListValues == {List(Items(n)) : n \in 0..MaxItems} \cup {Str("not a list")}

Objects ==
    { [k \in keys |->
          CASE k = "suggestions" -> suggestions
            [] k = "ats_keywords" -> ats
            [] OTHER -> Str("text")] :
      keys \in SUBSET {"suggestions", "ats_keywords", "rewritten_bullet", "title"},
      suggestions \in ListValues, ats \in ListValues }

Replies ==
    { [kind |-> "exception"], [kind |-> "no_choices"], [kind |-> "no_content"] }
    \cup { [kind |-> "content", content |-> c, json |-> [type |-> "invalid"]] :
             c \in {"", "  Sorry, I cannot help with that.  "} }
    \cup { [kind |-> "content", content |-> "json", json |-> [type |-> t]] :
             t \in {"null", "number", "string", "array"} }
    \cup { [kind |-> "content", content |-> "json", json |-> [type |-> "object", fields |-> o]] :
             o \in Objects }

JobTitles == {"", "Data Engineer"}

InitSuggest ==
    /\ pc = "start"
    /\ reply \in Replies
    /\ text \in JobTitles
    /\ years_exp \in {0, 5}
    /\ result = <<>>
    /\ module = <<>>
    /\ clock = 0
    /\ sections = EmptySections
    /\ skills = <<>>
    /\ score = <<>>
    /\ prev = <<>>
    /\ pdf = <<>>

\* text holds the job title of the call
DoSuggest ==
    /\ pc = "start"
    /\ result' = call_openai_suggestions(reply, text, years_exp)
    /\ pc' = "suggested"
    /\ UNCHANGED <<module, clock, text, sections, skills, years_exp, score, prev, pdf, reply>>

NextSuggest == DoSuggest

SpecSuggest == InitSuggest /\ [][NextSuggest]_vars

(***************************************************************************)
(* C6                                                                      *)
(***************************************************************************)
ThreeEntries(value) == value.type = "list" /\ Len(value.items) = 3

\* the first three entries of a list, "" for the missing ones
FirstThree(items) == [i \in 1..3 |-> IF i <= Len(items) THEN items[i] ELSE Str("")]

\* C6: whatever the request gives, the call returns, and what it returns holds
\* suggestions and ats_keywords of exactly 3 entries (a list of the reply
\* padded or truncated), rewritten_bullet and title.
C6_AlwaysThreeSuggestions ==
    pc = "suggested" =>
        /\ result.kind = "return"
        /\ {"suggestions", "ats_keywords", "rewritten_bullet", "title"} \subseteq DOMAIN result.value
        /\ ThreeEntries(result.value["suggestions"])
        /\ ThreeEntries(result.value["ats_keywords"])
        /\ (reply.kind = "content" /\ reply.json.type = "object"
                /\ is_list(reply.json.fields, "suggestions")) =>
              /\ result.value["suggestions"].items
                     = FirstThree(reply.json.fields["suggestions"].items)
              /\ is_list(reply.json.fields, "ats_keywords") =>
                     result.value["ats_keywords"].items
                         = FirstThree(reply.json.fields["ats_keywords"].items)

\* a reply with four suggestions, one keyword and no title
C6_Witness ==
    /\ pc = "suggested"
    /\ reply.kind = "content"
    /\ reply.json.type = "object"
    /\ is_list(reply.json.fields, "suggestions")
    /\ Len(reply.json.fields["suggestions"].items) = 4
    /\ is_list(reply.json.fields, "ats_keywords")
    /\ Len(reply.json.fields["ats_keywords"].items) = 1
    /\ ~has(reply.json.fields, "title")
    /\ result.kind = "return"

====
